---- MODULE Spec2Model ----
(***************************************************************************)
(* A model of src/main.ts, the pull-request review annotator: the pure     *)
(* helpers (getLineNumber, isAddOrDel, createPrompt, getAIResponse,        *)
(* createComment), the analyzeCode loop and the main pipeline.             *)
(*                                                                         *)
(* Text that the code inspects character by character (paths, glob         *)
(* patterns, the "exclude" input, lineNumber strings) is a sequence of     *)
(* one-character strings.  Text that is only copied (comment bodies, the   *)
(* trigger action) is a TLA+ string.                                       *)
(***************************************************************************)
EXTENDS Integers, Sequences, FiniteSets, TLC

(***************************************************************************)
(* Bounds of the model.                                                    *)
(***************************************************************************)
\* files in one diff (pipeline specification)
MaxFiles == 2
\* changes in one chunk (createComment specification)
MaxChanges == 2
\* entries in one model response (createComment specification)
MaxEntries == 2

(***************************************************************************)
(* JavaScript values.  One record shape for all of them: t is the type     *)
(* tag, s the characters of a string, n the value of a number.             *)
(***************************************************************************)
Str(chars) == [t |-> "str", s |-> chars, n |-> 0]
Num(k) == [t |-> "num", s |-> <<>>, n |-> k]
Undefined == [t |-> "undefined", s |-> <<>>, n |-> 0]
NaN == [t |-> "nan", s |-> <<>>, n |-> 0]

\* !v for a string-or-undefined value
Falsy(v) == v.t = "undefined" \/ (v.t = "str" /\ v.s = <<>>)

Digits == <<"0", "1", "2", "3", "4", "5", "6", "7", "8", "9">>
IsDigit(c) == \E i \in 1..10 : Digits[i] = c
DigitVal(c) == (CHOOSE i \in 1..10 : Digits[i] = c) - 1

RECURSIVE TrimLeft(_)
TrimLeft(cs) ==
  IF cs # <<>> /\ Head(cs) = " " THEN TrimLeft(Tail(cs)) ELSE cs

RECURSIVE TrimRight(_)
TrimRight(cs) ==
  IF cs # <<>> /\ cs[Len(cs)] = " "
  THEN TrimRight(SubSeq(cs, 1, Len(cs) - 1))
  ELSE cs

\* String.prototype.trim, for the blank character
Trim(cs) == TrimRight(TrimLeft(cs))

RECURSIVE DecimalValue(_)
DecimalValue(cs) ==
  IF cs = <<>> THEN 0
  ELSE 10 * DecimalValue(SubSeq(cs, 1, Len(cs) - 1)) + DigitVal(cs[Len(cs)])

AllDigits(cs) == cs # <<>> /\ \A i \in 1..Len(cs) : IsDigit(cs[i])

\* Number(v): a number is itself, undefined is NaN; a string is trimmed, the
\* empty string is 0, an optionally signed decimal numeral is its value, and
\* any other text over digits, signs, blanks and letters is NaN.
ToNumber(v) ==
  IF v.t = "num" THEN v
  ELSE IF v.t # "str" THEN NaN
  ELSE LET cs == Trim(v.s) IN
       IF cs = <<>> THEN Num(0)
       ELSE IF AllDigits(cs) THEN Num(DecimalValue(cs))
       ELSE IF Head(cs) = "-" /\ AllDigits(Tail(cs))
            THEN Num(0 - DecimalValue(Tail(cs)))
       ELSE IF Head(cs) = "+" /\ AllDigits(Tail(cs))
            THEN Num(DecimalValue(Tail(cs)))
       ELSE NaN

(***************************************************************************)
(* Changes and chunks as the diff parser delivers them.  A change carries  *)
(* its tag and, as the parser sets them, ln (add, del) or ln1 and ln2      *)
(* (normal); a number the parser does not set is 0 here and never read.    *)
(***************************************************************************)
Tags == {"normal", "add", "del"}

CountBefore(tags, i, counted) ==
  Cardinality({j \in 1..(i - 1) : tags[j] \in counted})

\* the parser's two counters: normal advances both, add the new one, del the
\* old one
ParseChange(oldStart, newStart, tags, i) ==
  LET old == oldStart + CountBefore(tags, i, {"normal", "del"})
      new == newStart + CountBefore(tags, i, {"normal", "add"})
  IN  CASE tags[i] = "normal" -> [tag |-> "normal", ln |-> 0, ln1 |-> old, ln2 |-> new]
        [] tags[i] = "add" -> [tag |-> "add", ln |-> new, ln1 |-> 0, ln2 |-> 0]
        [] tags[i] = "del" -> [tag |-> "del", ln |-> old, ln1 |-> 0, ln2 |-> 0]

ParseChunk(oldStart, newStart, tags) ==
  [oldStart |-> oldStart, newStart |-> newStart,
   changes |-> [i \in 1..Len(tags) |-> ParseChange(oldStart, newStart, tags, i)]]

(***************************************************************************)
(* getLineNumber and isAddOrDel                                            *)
(***************************************************************************)
\* a context change resolved to its old-file number
getLineNumber_OldForContext(change) ==
  IF change.tag = "normal" THEN Num(change.ln1)
  ELSE IF change.tag = "add" THEN Num(change.ln)
  ELSE IF change.tag = "del" THEN Num(change.ln)
  ELSE Undefined

getLineNumber(change) ==
  IF change.tag = "normal" THEN Num(change.ln2)
  ELSE IF change.tag = "add" THEN Num(change.ln)
  ELSE IF change.tag = "del" THEN Num(change.ln)
  ELSE Undefined

isAddOrDel(change) == change.tag = "add" \/ change.tag = "del"

\* Array.prototype.map
MapSeq(seq, F(_)) == [i \in 1..Len(seq) |-> F(seq[i])]

IsDefined(v) == v.t # "undefined"

\* chunk.changes.filter(isAddOrDel).map(getLineNumber).filter(ln !== undefined)
ChangedLineNumbers(chunk) ==
  SelectSeq(MapSeq(SelectSeq(chunk.changes, isAddOrDel), getLineNumber), IsDefined)

\* new Set(array) of numbers: membership, and the insertion order that
\* Array.from(set) reads back
NumberSet(seq) == {seq[i].n : i \in 1..Len(seq)}

RECURSIVE InsertionOrder(_)
InsertionOrder(seq) ==
  IF seq = <<>> THEN <<>>
  ELSE LET front == SubSeq(seq, 1, Len(seq) - 1)
           last == seq[Len(seq)].n
       IN  IF last \in NumberSet(front)
           THEN InsertionOrder(front)
           ELSE Append(InsertionOrder(front), last)

(***************************************************************************)
(* createPrompt.  The prompt is kept as the parts the code interpolates:   *)
(* the file name, the enumerated changed lines, whether the full file      *)
(* content is embedded, and the chunk's changes with their line labels.    *)
(***************************************************************************)
\* getLineNumber(c) || ""
LineLabel(change) ==
  LET ln == getLineNumber(change)
  IN  IF ln.t = "num" /\ ln.n # 0 THEN ln ELSE Str(<<>>)

\* the prompt enumerates the added lines only
AddedLineNumbers(chunk) ==
  LET isAdd(change) == change.tag = "add"
  IN  SelectSeq(MapSeq(SelectSeq(chunk.changes, isAdd), getLineNumber), IsDefined)

createPrompt_AdditionsOnly(file, chunk, fullFileContent) ==
  [to |-> file.to,
   changedLines |-> InsertionOrder(AddedLineNumbers(chunk)),
   context |-> fullFileContent,
   labels |-> MapSeq(chunk.changes, LineLabel)]

createPrompt(file, chunk, fullFileContent) ==
  LET changedLines == ChangedLineNumbers(chunk)
  IN  [to |-> file.to,
       changedLines |-> InsertionOrder(changedLines),
       context |-> fullFileContent,
       labels |-> MapSeq(chunk.changes, LineLabel)]

(***************************************************************************)
(* getAIResponse.  The provider's answer is either an exception or a       *)
(* message content; a content is classified by what JSON.parse makes of    *)
(* it: a syntax error, the value null, or an object, whose "reviews"       *)
(* member is a JavaScript value of its own (a missing member is            *)
(* undefined).  A reviews value: t is its type, items the elements of an   *)
(* array.                                                                  *)
(***************************************************************************)
Reviews(t, items) == [t |-> t, items |-> items]
Null == Reviews("null", <<>>)
NoReviews == Reviews("undefined", <<>>)

\* the provider call threw
Throws == [kind |-> "throw", json |-> "none", reviews |-> NoReviews]
\* content is absent or blank: the code parses "{}" instead
NoContent == [kind |-> "content", json |-> "blank", reviews |-> NoReviews]
\* content is not JSON
NotJSON == [kind |-> "content", json |-> "invalid", reviews |-> NoReviews]
\* content is the JSON text null
JSONNull == [kind |-> "content", json |-> "null", reviews |-> NoReviews]
\* content is a JSON object with the given reviews member
JSONObject(reviews) == [kind |-> "content", json |-> "object", reviews |-> reviews]

getAIResponse(answer) ==
  IF answer.kind = "throw" THEN Null             \* catch: return null
  ELSE IF answer.json = "blank" THEN NoReviews   \* JSON.parse("{}").reviews
  ELSE IF answer.json = "invalid" THEN Null      \* SyntaxError, caught
  ELSE IF answer.json = "null" THEN Null         \* TypeError on null.reviews, caught
  ELSE answer.reviews

\* whether getAIResponse went through its catch block (and logged the error)
Caught(answer) ==
  answer.kind = "throw" \/ answer.json \in {"invalid", "null"}

\* if (aiResponse)
Truthy(r) ==
  /\ r.t \notin {"null", "undefined"}
  /\ ~(r.t = "str" /\ r.items = <<>>)

(***************************************************************************)
(* createComment                                                           *)
(***************************************************************************)
\* the set built without the isAddOrDel filter
validLines_AllChanges(chunk) == NumberSet(MapSeq(chunk.changes, getLineNumber))

validLines(chunk) == NumberSet(ChangedLineNumbers(chunk))

\* the callback without the validLines.has test
CommentFor_AnyLine(file, valid, aiResponse) ==
  IF Falsy(file.to) THEN <<>>
  ELSE LET lineNumber == ToNumber(aiResponse.lineNumber)
       IN  IF lineNumber.t # "num" THEN <<>>
           ELSE << [body |-> aiResponse.reviewComment,
                    path |-> file.to.s,
                    line |-> lineNumber.n] >>

\* the callback of flatMap: [] or one comment
CommentFor(file, valid, aiResponse) ==
  IF Falsy(file.to) THEN <<>>
  ELSE LET lineNumber == ToNumber(aiResponse.lineNumber)
       IN  IF ~(lineNumber.t = "num" /\ lineNumber.n \in valid) THEN <<>>
           ELSE << [body |-> aiResponse.reviewComment,
                    path |-> file.to.s,
                    line |-> lineNumber.n] >>

RECURSIVE FlatMap(_, _, _)
FlatMap(file, valid, aiResponses) ==
  IF aiResponses = <<>> THEN <<>>
  ELSE CommentFor(file, valid, Head(aiResponses))
         \o FlatMap(file, valid, Tail(aiResponses))

\* at most one comment per line: a later entry on a line already commented
\* is dropped
RECURSIVE OncePerLine(_)
OncePerLine(cs) ==
  IF cs = <<>> THEN <<>>
  ELSE LET front == OncePerLine(SubSeq(cs, 1, Len(cs) - 1))
           last == cs[Len(cs)]
       IN  IF \E i \in 1..Len(front) : front[i].line = last.line
           THEN front
           ELSE Append(front, last)

createComment_OncePerLine(file, chunk, aiResponses) ==
  OncePerLine(FlatMap(file, validLines(chunk), aiResponses))

createComment(file, chunk, aiResponses) ==
  FlatMap(file, validLines(chunk), aiResponses)

(***************************************************************************)
(* The exclusion configuration: core.getInput("exclude").split(",") with   *)
(* each part trimmed, and minimatch(path, pattern) for patterns made of    *)
(* literal characters and "*".                                             *)
(***************************************************************************)
RECURSIVE Split(_, _)
\* String.prototype.split(","): acc is the part being read
Split(cs, acc) ==
  IF cs = <<>> THEN <<acc>>
  ELSE IF Head(cs) = "," THEN <<acc>> \o Split(Tail(cs), <<>>)
  ELSE Split(Tail(cs), Append(acc, Head(cs)))

excludePatterns(input) == MapSeq(Split(input, <<>>), Trim)

RECURSIVE GlobMatch(_, _, _)
\* "*" matches any run of characters other than "/", and at the start of a
\* path segment it does not match a leading "."; a literal matches itself
GlobMatch(pattern, path, segmentStart) ==
  IF pattern = <<>> THEN path = <<>>
  ELSE IF Head(pattern) = "*"
  THEN /\ ~(segmentStart /\ path # <<>> /\ Head(path) = ".")
       /\ \/ GlobMatch(Tail(pattern), path, FALSE)
          \/ /\ path # <<>>
             /\ Head(path) # "/"
             /\ GlobMatch(pattern, Tail(path), FALSE)
  ELSE /\ path # <<>>
       /\ Head(path) = Head(pattern)
       /\ GlobMatch(Tail(pattern), Tail(path), Head(pattern) = "/")

\* the empty pattern matches the empty path only
minimatch(path, pattern) ==
  IF pattern = <<>> THEN path = <<>> ELSE GlobMatch(pattern, path, TRUE)

\* file.to ?? ""
PathOrEmpty(file) == IF file.to.t = "undefined" THEN <<>> ELSE file.to.s

\* the predicate with "every" in place of "some"
Kept_EveryPattern(file, patterns) ==
  ~ \A i \in 1..Len(patterns) : minimatch(PathOrEmpty(file), patterns[i])

\* the predicate of parsedDiff.filter
Kept(file, patterns) ==
  ~ \E i \in 1..Len(patterns) : minimatch(PathOrEmpty(file), patterns[i])

filterDiff(parsedDiff, patterns) ==
  LET keep(file) == Kept(file, patterns)
  IN  SelectSeq(parsedDiff, keep)

(***************************************************************************)
(* The inputs of a run.                                                    *)
(***************************************************************************)
PathMd == <<"a", ".", "m", "d">>
PathTxt == <<"b", ".", "t", "x", "t">>
DevNull == <<"/", "d", "e", "v", "/", "n", "u", "l", "l">>

\* one added line, number 10 of the new file
ChunkAdd == ParseChunk(10, 10, <<"add">>)
\* old line 1 deleted, followed by an unchanged line
ChunkDelThenContext == ParseChunk(1, 1, <<"del", "normal">>)
\* the only line of a deleted file
ChunkDelAll == ParseChunk(1, 0, <<"del">>)

File(to, chunks) == [to |-> to, chunks |-> chunks]

Files ==
  { File(Str(PathMd), <<ChunkDelThenContext, ChunkAdd>>),
    File(Str(PathTxt), <<ChunkAdd>>),
    File(Str(DevNull), <<ChunkDelAll>>),
    File(Undefined, <<ChunkAdd>>) }

SeqsUpTo(S, n) == UNION {[1..k -> S] : k \in 0..n}

\* what the host delivers as diff: no text at all, or text that parses into
\* a list of files
\* the text the diff fetch returns: empty, well-formed (files is what the
\* parser returns for it), or malformed (the parser fails on it; files is
\* what it had parsed before the failure)
Diffs ==
  {[empty |-> TRUE, malformed |-> FALSE, files |-> <<>>]}
    \cup {[empty |-> FALSE, malformed |-> FALSE, files |-> fs] :
             fs \in SeqsUpTo(Files, MaxFiles)}
    \cup {[empty |-> FALSE, malformed |-> TRUE,
            files |-> << File(Str(PathTxt), <<ChunkAdd>>) >>]}

\* the "exclude" input: the default, one pattern, two patterns with a blank
ExcludeInputs ==
  { <<>>,
    <<"*", ".", "m", "d">>,
    <<"*", ".", "m", "d", ",", " ", "*", ".", "t", "x", "t">> }

Actions == {"opened", "synchronize", "closed"}

Entry(lineNumber, reviewComment) ==
  [lineNumber |-> lineNumber, reviewComment |-> reviewComment]

Line10 == Str(<<"1", "0">>)
Line1 == Str(<<"1">>)
Line9999 == Str(<<"9", "9", "9", "9">>)

\* the answers the model provider gives in the pipeline specification
ModelAnswers ==
  { Throws, NoContent, NotJSON,
    JSONObject(NoReviews),
    JSONObject(Reviews("str", <<"o", "k">>)),
    JSONObject(Reviews("arr", <<>>)),
    JSONObject(Reviews("arr", <<Entry(Line10, "A")>>)),
    JSONObject(Reviews("arr", <<Entry(Line1, "B"), Entry(Num(10), "A"),
                               Entry(Line10, "B")>>)) }

(***************************************************************************)
(* The state of a run.                                                     *)
(***************************************************************************)
VARIABLES
  pc,              \* where main is suspended
  status,          \* "running", "success" (main returned), "failure" (exit 1)
  error,           \* what main().catch received
  event,           \* the trigger payload
  excludeInput,    \* core.getInput("exclude")
  hostDiff,        \* the diff the host holds for this pull request
  filteredDiff,    \* parsedDiff after the exclusion filter
  fileIdx,         \* analyzeCode: position of the outer loop
  chunkIdx,        \* analyzeCode: position of the inner loop
  fullFileContent, \* analyzeCode: whether the content of the file was fetched
  comments,        \* analyzeCode: the accumulator
  prompt,          \* the prompt of the latest model invocation
  answer,          \* the provider's answer to it
  mapped,          \* the latest call of createComment and what it returned
  thrown,          \* the calls that have thrown so far, caught or not
  submissions,     \* the comment lists passed to createReviewComment
  calls            \* every collaborator call, in order

vars ==
  << pc, status, error, event, excludeInput, hostDiff, filteredDiff, fileIdx,
     chunkIdx, fullFileContent, comments, prompt, answer, mapped,
     thrown, submissions, calls >>

\* a collaborator call: file and chunk are positions in filteredDiff and in
\* the file's chunks (0 when the call is about no file or chunk)
Call(op, file, to, chunk) ==
  [op |-> op, file |-> file, to |-> to, chunk |-> chunk, base |-> "", head |-> ""]

NoPrompt == [to |-> Undefined, changedLines |-> <<>>, context |-> FALSE, labels |-> <<>>]
NoAnswer == [kind |-> "none", json |-> "none", reviews |-> NoReviews]
NoCall ==
  [called |-> FALSE, file |-> File(Undefined, <<>>), chunk |-> ParseChunk(0, 0, <<>>),
   aiResponses |-> <<>>, comments |-> <<>>]

Init ==
  /\ pc = "GetPRDetails"
  /\ status = "running"
  /\ error = "none"
  /\ event \in [action : Actions, before : {"sha0"}, after : {"sha1"}]
  /\ excludeInput \in ExcludeInputs
  /\ hostDiff \in Diffs
  /\ filteredDiff = <<>>
  /\ fileIdx = 0
  /\ chunkIdx = 0
  /\ fullFileContent = FALSE
  /\ comments = <<>>
  /\ prompt = NoPrompt
  /\ answer = NoAnswer
  /\ mapped = NoCall
  /\ thrown = {}
  /\ submissions = <<>>
  /\ calls = <<>>

(***************************************************************************)
(* main and analyzeCode, one action per stretch of code between two        *)
(* awaited collaborator calls.  An awaited call and the code that runs on  *)
(* its result are one action; the result is chosen by the collaborator.    *)
(***************************************************************************)
analysisVars == << fileIdx, chunkIdx, fullFileContent, comments, prompt, answer, mapped >>
inputVars == << event, excludeInput, hostDiff >>

\* an exception nobody catches reaches main().catch: log and process.exit(1)
Abort(e) ==
  /\ pc' = "Done"
  /\ status' = "failure"
  /\ error' = e
  /\ thrown' = thrown \cup {e}

\* main returns
Return ==
  /\ pc' = "Done"
  /\ status' = "success"
  /\ error' = error

\* getPRDetails: octokit.pulls.get for title and description
GetPRDetails ==
  /\ pc = "GetPRDetails"
  /\ calls' = Append(calls, Call("pulls.get", 0, Undefined, 0))
  /\ \E ok \in BOOLEAN :
       IF ok
       THEN pc' = "FetchDiff" /\ UNCHANGED << status, error, thrown >>
       ELSE Abort("pulls.get")
  /\ UNCHANGED << inputVars, analysisVars, filteredDiff, submissions >>

\* a parse failure is swallowed and the files parsed so far are analysed
ParseAndFilter_KeepPartial(diff) ==
  IF diff.empty
  THEN Return /\ UNCHANGED << filteredDiff, fileIdx, thrown >>
  ELSE /\ filteredDiff' = filterDiff(diff.files, excludePatterns(excludeInput))
       /\ fileIdx' = 1
       /\ pc' = "Files"
       /\ thrown' = IF diff.malformed THEN thrown \cup {"parseDiff"} ELSE thrown
       /\ UNCHANGED << status, error >>

\* no "if (!diff)" test: an empty diff is parsed and filtered like any other
ParseAndFilter_NoEmptyTest(diff) ==
  IF diff.malformed
  THEN Abort("parseDiff") /\ UNCHANGED << filteredDiff, fileIdx >>
  ELSE /\ filteredDiff' = filterDiff(diff.files, excludePatterns(excludeInput))
       /\ fileIdx' = 1
       /\ pc' = "Files"
       /\ UNCHANGED << status, error, thrown >>

\* main, from "if (!diff)" to the call of analyzeCode; parseDiff(diff) is
\* called outside any try block, so its exception leaves main
ParseAndFilter(diff) ==
  IF diff.empty
  THEN Return /\ UNCHANGED << filteredDiff, fileIdx, thrown >>
  ELSE IF diff.malformed
  THEN Abort("parseDiff") /\ UNCHANGED << filteredDiff, fileIdx >>
  ELSE /\ filteredDiff' = filterDiff(diff.files, excludePatterns(excludeInput))
       /\ fileIdx' = 1
       /\ pc' = "Files"
       /\ UNCHANGED << status, error, thrown >>

\* action "opened": getDiff
FetchFullDiff ==
  /\ pc = "FetchDiff"
  /\ event.action = "opened"
  /\ calls' = Append(calls, Call("getDiff", 0, Undefined, 0))
  /\ \E ok \in BOOLEAN :
       IF ok
       THEN ParseAndFilter(hostDiff)
       ELSE Abort("getDiff") /\ UNCHANGED << filteredDiff, fileIdx >>
  /\ UNCHANGED << inputVars, chunkIdx, fullFileContent, comments, prompt, answer,
                  mapped, submissions >>

\* action "synchronize": octokit.repos.compareCommits(before, after)
FetchIncrementalDiff ==
  /\ pc = "FetchDiff"
  /\ event.action = "synchronize"
  /\ calls' = Append(calls, [Call("compareCommits", 0, Undefined, 0)
                              EXCEPT !.base = event.before, !.head = event.after])
  /\ \E ok \in BOOLEAN :
       IF ok
       THEN ParseAndFilter(hostDiff)
       ELSE Abort("compareCommits") /\ UNCHANGED << filteredDiff, fileIdx >>
  /\ UNCHANGED << inputVars, chunkIdx, fullFileContent, comments, prompt, answer,
                  mapped, submissions >>

\* any other action handled like "opened"
UnsupportedEvent_AsOpened ==
  /\ pc = "FetchDiff"
  /\ event.action \notin {"opened", "synchronize"}
  /\ calls' = Append(calls, Call("getDiff", 0, Undefined, 0))
  /\ ParseAndFilter(hostDiff)
  /\ UNCHANGED << inputVars, chunkIdx, fullFileContent, comments, prompt, answer,
                  mapped, submissions >>

\* any other action: log "Unsupported event" and return
UnsupportedEvent ==
  /\ pc = "FetchDiff"
  /\ event.action \notin {"opened", "synchronize"}
  /\ Return
  /\ UNCHANGED << inputVars, analysisVars, filteredDiff, thrown, submissions, calls >>

\* no file counts as deleted
isDeleted_Never(file) == FALSE

\* "/dev/null" as destination marks a deleted file
isDeleted(file) == file.to = Str(DevNull)

\* analyzeCode: "if (file.to === "/dev/null") continue"
SkipDeletedFile ==
  /\ pc = "Files"
  /\ fileIdx <= Len(filteredDiff)
  /\ isDeleted(filteredDiff[fileIdx])
  /\ fileIdx' = fileIdx + 1
  /\ UNCHANGED << pc, status, error, inputVars, filteredDiff, chunkIdx, fullFileContent,
                  comments, prompt, answer, mapped, thrown, submissions, calls >>

\* analyzeCode: getFileContent, which answers null when the host call throws
\* or the response holds no string content
GetFileContent ==
  /\ pc = "Files"
  /\ fileIdx <= Len(filteredDiff)
  /\ ~isDeleted(filteredDiff[fileIdx])
  /\ calls' = Append(calls, Call("getContent", fileIdx, filteredDiff[fileIdx].to, 0))
  /\ \E result \in {"content", "no content", "throws"} :
       /\ fullFileContent' = (result = "content")
       /\ thrown' = IF result = "throws" THEN thrown \cup {"getContent"} ELSE thrown
  /\ chunkIdx' = 1
  /\ pc' = "Chunks"
  /\ UNCHANGED << status, error, inputVars, filteredDiff, fileIdx, comments, prompt,
                  answer, mapped, submissions >>

\* the accumulator is overwritten by the comments of the chunk
push_Overwrite(list, items) == items

\* comments.push(...newComments)
push(list, items) == list \o items

\* analyzeCode: one turn of the inner loop: createPrompt, getAIResponse,
\* createComment, comments.push
ReviewChunk ==
  /\ pc = "Chunks"
  /\ chunkIdx <= Len(filteredDiff[fileIdx].chunks)
  /\ LET file == filteredDiff[fileIdx]
         chunk == file.chunks[chunkIdx]
     IN  /\ prompt' = createPrompt(file, chunk, fullFileContent)
         /\ calls' = calls \o << Call("createPrompt", fileIdx, file.to, chunkIdx),
                                  Call("model", fileIdx, file.to, chunkIdx) >>
         /\ \E a \in ModelAnswers :
              LET aiResponse == getAIResponse(a)
              IN  /\ answer' = a
                  /\ IF ~Truthy(aiResponse)
                     THEN /\ chunkIdx' = chunkIdx + 1
                          /\ thrown' = IF Caught(a)
                                       THEN thrown \cup {"getAIResponse"}
                                       ELSE thrown
                          /\ UNCHANGED << pc, status, error, comments, mapped >>
                     ELSE IF aiResponse.t # "arr"
                     THEN \* aiResponses.flatMap is not a function
                          /\ Abort("createComment")
                          /\ UNCHANGED << chunkIdx, comments, mapped >>
                     ELSE LET newComments == createComment(file, chunk, aiResponse.items)
                          IN  /\ mapped' = [called |-> TRUE, file |-> file, chunk |-> chunk,
                                            aiResponses |-> aiResponse.items,
                                            comments |-> newComments]
                              /\ comments' = push(comments, newComments)
                              /\ chunkIdx' = chunkIdx + 1
                              /\ UNCHANGED << pc, status, error, thrown >>
  /\ UNCHANGED << inputVars, filteredDiff, fileIdx, fullFileContent, submissions >>

\* analyzeCode: the inner loop is over, on to the next file
NextFile ==
  /\ pc = "Chunks"
  /\ chunkIdx > Len(filteredDiff[fileIdx].chunks)
  /\ fileIdx' = fileIdx + 1
  /\ pc' = "Files"
  /\ UNCHANGED << status, error, inputVars, filteredDiff, chunkIdx, fullFileContent,
                  comments, prompt, answer, mapped, thrown, submissions, calls >>

\* the review is submitted whether or not there are comments
FinishAnalysis_AlwaysSubmit ==
  /\ pc = "Files"
  /\ fileIdx > Len(filteredDiff)
  /\ pc' = "Submit"
  /\ UNCHANGED << status, error, inputVars, analysisVars, filteredDiff, thrown,
                  submissions, calls >>

\* analyzeCode returns; main: "if (comments.length > 0)"
FinishAnalysis ==
  /\ pc = "Files"
  /\ fileIdx > Len(filteredDiff)
  /\ IF Len(comments) > 0
     THEN pc' = "Submit" /\ UNCHANGED << status, error >>
     ELSE Return
  /\ UNCHANGED << inputVars, analysisVars, filteredDiff, thrown, submissions, calls >>

\* a failure of createReview is caught and the run returns normally
SubmitReview_Swallow ==
  /\ pc = "Submit"
  /\ calls' = Append(calls, Call("createReview", 0, Undefined, 0))
  /\ submissions' = Append(submissions, comments)
  /\ \E ok \in BOOLEAN :
       /\ Return
       /\ thrown' = IF ok THEN thrown ELSE thrown \cup {"createReview"}
  /\ UNCHANGED << inputVars, analysisVars, filteredDiff >>

\* createReviewComment: octokit.pulls.createReview with the whole list
SubmitReview ==
  /\ pc = "Submit"
  /\ calls' = Append(calls, Call("createReview", 0, Undefined, 0))
  /\ submissions' = Append(submissions, comments)
  /\ \E ok \in BOOLEAN :
       IF ok THEN Return /\ UNCHANGED thrown ELSE Abort("createReview")
  /\ UNCHANGED << inputVars, analysisVars, filteredDiff >>

Next ==
  \/ GetPRDetails
  \/ FetchFullDiff
  \/ FetchIncrementalDiff
  \/ UnsupportedEvent
  \/ SkipDeletedFile
  \/ GetFileContent
  \/ ReviewChunk
  \/ NextFile
  \/ FinishAnalysis
  \/ SubmitReview

Spec == Init /\ [][Next]_vars

(***************************************************************************)
(* createComment on its own: one call, on any file, chunk and response of  *)
(* the sets below.                                                         *)
(***************************************************************************)
\* lineNumber values: eligible in some chunk, absent from every chunk,
\* non-numeric, empty, negative, and a JSON number
LineValues ==
  { Line10, Line1, Line9999, Str(<<"a", "b", "c">>), Str(<<>>), Str(<<"-", "1">>),
    Num(10) }

Entries == {Entry(ln, body) : ln \in LineValues, body \in {"A", "B"}}

TagSeqs == UNION {[1..k -> Tags] : k \in 1..MaxChanges}

UnitChunks == {ParseChunk(start, start, tags) : start \in {1, 10}, tags \in TagSeqs}

UnitFiles == {File(Str(PathTxt), <<>>), File(Undefined, <<>>)}

InitMap ==
  /\ pc = "createComment"
  /\ status = "running"
  /\ error = "none"
  /\ event = [action |-> "opened", before |-> "sha0", after |-> "sha1"]
  /\ excludeInput = <<>>
  /\ hostDiff = [empty |-> TRUE, malformed |-> FALSE, files |-> <<>>]
  /\ filteredDiff = <<>>
  /\ fileIdx = 0
  /\ chunkIdx = 0
  /\ fullFileContent = FALSE
  /\ comments = <<>>
  /\ prompt = NoPrompt
  /\ answer = NoAnswer
  /\ \E file \in UnitFiles, chunk \in UnitChunks, es \in SeqsUpTo(Entries, MaxEntries) :
       mapped = [called |-> FALSE, file |-> file, chunk |-> chunk,
                 aiResponses |-> es, comments |-> <<>>]
  /\ thrown = {}
  /\ submissions = <<>>
  /\ calls = <<>>

CallCreateComment ==
  /\ pc = "createComment"
  /\ ~mapped.called
  /\ mapped' = [mapped EXCEPT
                  !.called = TRUE,
                  !.comments = createComment(mapped.file, mapped.chunk, mapped.aiResponses)]
  /\ UNCHANGED << pc, status, error, inputVars, filteredDiff, fileIdx, chunkIdx,
                  fullFileContent, comments, prompt, answer, thrown,
                  submissions, calls >>

SpecMap == InitMap /\ [][CallCreateComment]_vars

(***************************************************************************)
(* Vocabulary of the properties.                                           *)
(***************************************************************************)
Range(seq) == {seq[i] : i \in 1..Len(seq)}

\* EligibleLineSet(chunk): the new-file number of every Addition and the
\* old-file number of every Deletion (the parser stores either in ln)
EligibleLineSet(chunk) ==
  {c.ln : c \in {d \in Range(chunk.changes) : d.tag \in {"add", "del"}}}

\* the new-file numbers of the Context changes of a chunk
ContextLineSet(chunk) ==
  {c.ln2 : c \in {d \in Range(chunk.changes) : d.tag = "normal"}}

\* the entries of a response whose numeric line is eligible in the chunk
EligibleEntry(chunk, entry) ==
  LET n == ToNumber(entry.lineNumber)
  IN  n.t = "num" /\ n.n \in EligibleLineSet(chunk)

EligibleEntries(chunk, entries) ==
  LET eligible(entry) == EligibleEntry(chunk, entry)
  IN  SelectSeq(entries, eligible)

(***************************************************************************)
(* C1.  createComment emits only comments whose line is a member of the    *)
(* chunk's EligibleLineSet, whatever the response holds (lines absent from *)
(* the diff, non-numeric, empty, negative, duplicated): an entry whose     *)
(* numeric line is not in the set yields no comment, so there are never    *)
(* more comments than eligible entries, and a response without eligible    *)
(* entries yields the empty list.                                          *)
(***************************************************************************)
C1_OnlyEligibleLines ==
  mapped.called =>
    /\ \A i \in 1..Len(mapped.comments) :
         mapped.comments[i].line \in EligibleLineSet(mapped.chunk)
    /\ Len(mapped.comments) <= Len(EligibleEntries(mapped.chunk, mapped.aiResponses))

\* a response mixing an eligible line with one absent from the diff
C1_Witness ==
  /\ mapped.called
  /\ Len(mapped.aiResponses) = 2
  /\ mapped.aiResponses[1].lineNumber = Line9999
  /\ mapped.aiResponses[2].lineNumber = Line10
  /\ Len(mapped.comments) = 1
  /\ ContextLineSet(mapped.chunk) # {}

(***************************************************************************)
(* C8.  EligibleLineSet(chunk), as createComment builds it, is exactly the *)
(* set of resolved numbers of the Addition and Deletion changes, and no    *)
(* member of it equals the resolved (new-file) number of a Context change  *)
(* of the same chunk.                                                      *)
(***************************************************************************)
C8_NoContextNumberEligible ==
  mapped.called =>
    /\ validLines(mapped.chunk) = EligibleLineSet(mapped.chunk)
    /\ validLines(mapped.chunk) \cap ContextLineSet(mapped.chunk) = {}

(***************************************************************************)
(* C10.  For a file with a destination path, createComment returns exactly *)
(* one comment per response entry whose numeric line is eligible, in the   *)
(* order of the entries, with path = file.to, line = the numeric value of  *)
(* lineNumber and body = reviewComment; and a run whose diff is the single *)
(* file "b.txt" with added line 10, answered by the single entry           *)
(* {lineNumber: "10"}, issues one review call carrying exactly the comment *)
(* {path: "b.txt", line: 10}.                                              *)
(***************************************************************************)
ExpectedComment(file, entry) ==
  [body |-> entry.reviewComment,
   path |-> file.to.s,
   line |-> ToNumber(entry.lineNumber).n]

ExpectedComments(file, chunk, entries) ==
  LET eligible == EligibleEntries(chunk, entries)
  IN  [i \in 1..Len(eligible) |-> ExpectedComment(file, eligible[i])]

AcceptScenario ==
  /\ pc = "Done"
  /\ filteredDiff = << File(Str(PathTxt), <<ChunkAdd>>) >>
  /\ answer = JSONObject(Reviews("arr", <<Entry(Line10, "A")>>))

C10_OneCommentPerEligibleEntry ==
  /\ (mapped.called /\ ~Falsy(mapped.file.to)) =>
       mapped.comments =
         ExpectedComments(mapped.file, mapped.chunk, mapped.aiResponses)
  /\ AcceptScenario =>
       submissions = << << [body |-> "A", path |-> PathTxt, line |-> 10] >> >>

\* the accept scenario has run to a successful end
C10_Witness ==
  /\ AcceptScenario
  /\ status = "success"

(***************************************************************************)
(* C2.  When the model invocation for a chunk fails or its output cannot   *)
(* be parsed, the run does not abort: it ends with success status if the   *)
(* submission succeeds or there is nothing to submit.                      *)
(***************************************************************************)
C2_FailedChunkNeverFailsTheRun ==
  ( /\ pc = "Done"
    /\ "getAIResponse" \in thrown
    /\ \/ comments = <<>>
       \/ (submissions # <<>> /\ "createReview" \notin thrown) )
    => status = "success"

(***************************************************************************)
(* C3.  getAIResponse hands the orchestrator a sequence of records or      *)
(* "none", whatever the raw model output, and a malformed response shape   *)
(* never makes the Validate/Map step fail and abort the run.               *)
(***************************************************************************)
C3_SequenceOrNone ==
  /\ answer # NoAnswer => getAIResponse(answer).t \in {"arr", "null", "undefined"}
  /\ "createComment" \notin thrown

(***************************************************************************)
(* C4.  The review submission call is issued at most once per run, only    *)
(* with a non-empty list, only after every chunk of every file that is     *)
(* left after filtering and not deleted has been through the model, and it *)
(* carries the whole aggregated list.                                      *)
(***************************************************************************)
CallsOf(op) == {i \in 1..Len(calls) : calls[i].op = op}

Reviewed(f, k) ==
  \E i \in CallsOf("model") : calls[i].file = f /\ calls[i].chunk = k

C4_SubmitAtMostOnce ==
  /\ Len(submissions) <= 1
  /\ Cardinality(CallsOf("createReview")) = Len(submissions)
  /\ submissions # <<>> =>
       /\ submissions[1] # <<>>
       /\ submissions[1] = comments
       /\ calls[Len(calls)].op = "createReview"
       /\ \A f \in 1..Len(filteredDiff) :
            ~isDeleted(filteredDiff[f]) =>
              \A k \in 1..Len(filteredDiff[f].chunks) : Reviewed(f, k)

\* a submission after two files, one of them with two chunks
C4_Witness ==
  /\ status = "success"
  /\ Len(submissions) = 1
  /\ Len(submissions[1]) >= 2
  /\ Len(filteredDiff) = 2
  /\ Cardinality(CallsOf("model")) = 3

(***************************************************************************)
(* C5.  A file carrying the deleted sentinel never reaches PromptBuilder:  *)
(* no file-content fetch, no createPrompt call and no model invocation     *)
(* happens for it, and no comment with its path is aggregated or           *)
(* submitted.                                                              *)
(***************************************************************************)
FileCalls == CallsOf("getContent") \cup CallsOf("createPrompt") \cup CallsOf("model")

Submitted == UNION {Range(submissions[i]) : i \in 1..Len(submissions)}

UnsupportedTrigger == event.action \notin {"opened", "synchronize"}

OnlyMetadataFetched ==
  /\ Len(calls) <= 1
  /\ \A i \in 1..Len(calls) : calls[i].op = "pulls.get"
  /\ pc = "Done" => Len(calls) = 1
  /\ submissions = <<>>
  /\ comments = <<>>

C6_UnsupportedTriggerSucceeds ==
  UnsupportedTrigger =>
    /\ OnlyMetadataFetched
    /\ thrown = {}
    /\ pc = "Done" => status = "success"

(***************************************************************************)
(* C6, amended.  As C6, with the end of the run depending on the metadata  *)
(* fetch, which comes before the action is looked at: the run ends with    *)
(* success status and no error if that fetch succeeds, and with failure    *)
(* status if it fails; in either case nothing else is called.              *)
(***************************************************************************)
C6_UnsupportedTriggerIsNoOp ==
  UnsupportedTrigger =>
    /\ OnlyMetadataFetched
    /\ thrown \subseteq {"pulls.get"}
    /\ pc = "Done" =>
         IF "pulls.get" \in thrown
         THEN status = "failure" /\ error = "pulls.get"
         ELSE status = "success" /\ error = "none"

\* a "closed" run that has returned after the metadata fetch
C6_Witness ==
  /\ event.action = "closed"
  /\ ~hostDiff.empty
  /\ pc = "Done"
  /\ status = "success"
  /\ Len(calls) = 1

(***************************************************************************)
(* C7.  A failure of any host call (metadata fetch, full or incremental    *)
(* diff fetch, file-content fetch, review submission) terminates the run   *)
(* with failure status; none is swallowed.                                 *)
(***************************************************************************)
HostCalls == {"pulls.get", "getDiff", "compareCommits", "getContent", "createReview"}

C7_EveryHostFailureFailsTheRun ==
  thrown \cap HostCalls # {} => (pc = "Done" /\ status = "failure")

(***************************************************************************)
(* C7, amended.  A failure of the metadata fetch, of the diff fetch (full  *)
(* or incremental) or of the review submission terminates the run with     *)
(* failure status, that failure being the error reported; a failure of the *)
(* file-content fetch is caught and never the error that ends a run.       *)
(***************************************************************************)
C7_UncaughtHostFailureFailsTheRun ==
  /\ \A op \in HostCalls \ {"getContent"} :
       op \in thrown => (pc = "Done" /\ status = "failure" /\ error = op)
  /\ error # "getContent"

\* a content fetch failed, the run went on, and the submission failed
C7_Witness ==
  /\ "getContent" \in thrown
  /\ "createReview" \in thrown
  /\ status = "failure"

(***************************************************************************)
(* C9.  A file whose destination path matches at least one configured glob *)
(* pattern is removed from all further processing (no content fetch, no    *)
(* prompt, no model invocation, no comment); a file whose path matches no  *)
(* pattern proceeds unchanged and in its original order.  With patterns    *)
(* ["*.md"] and files ["a.md", "b.txt"] only "b.txt" proceeds.             *)
(***************************************************************************)
PatternMd == <<"*", ".", "m", "d">>
PatternTxt == <<"*", ".", "t", "x", "t">>

\* the patterns each exclude input configures
Configured(input) ==
  CASE input = <<>> -> {}
    [] input = PatternMd -> {PatternMd}
    [] OTHER -> {PatternMd, PatternTxt}

\* which of the paths above match which pattern
GlobMatches == {<<PathMd, PatternMd>>, <<PathTxt, PatternTxt>>}

ExcludedPath(path) ==
  \E pattern \in Configured(excludeInput) : <<path, pattern>> \in GlobMatches

HasPath(file) == file.to.t = "str"

PassesFilter(file) == ~ExcludedPath(file.to.s)

FilterApplied == fileIdx >= 1

C9_ExclusionFiltering ==
  /\ FilterApplied =>
       /\ SelectSeq(filteredDiff, HasPath)
            = SelectSeq(SelectSeq(hostDiff.files, HasPath), PassesFilter)
       /\ Range(filteredDiff) \subseteq Range(hostDiff.files)
  /\ \A i \in FileCalls : HasPath(calls[i]) => ~ExcludedPath(calls[i].to.s)
  /\ \A c \in Range(comments) \cup Submitted : ~ExcludedPath(c.path)
  /\ ( /\ FilterApplied
       /\ excludeInput = PatternMd
       /\ hostDiff.files = << File(Str(PathMd), <<ChunkDelThenContext, ChunkAdd>>),
                              File(Str(PathTxt), <<ChunkAdd>>) >> )
       => filteredDiff = << File(Str(PathTxt), <<ChunkAdd>>) >>

\* the example has run: "a.md" was dropped, "b.txt" reviewed and commented
C9_Witness ==
  /\ excludeInput = PatternMd
  /\ hostDiff.files = << File(Str(PathMd), <<ChunkDelThenContext, ChunkAdd>>),
                         File(Str(PathTxt), <<ChunkAdd>>) >>
  /\ status = "success"
  /\ Len(submissions) = 1

(***************************************************************************)
(* C11.  getLineNumber returns the new-file line number of a Context       *)
(* change and of an Addition change, and the old-file line number of a     *)
(* Deletion change, where the two numbers of the change at a position are  *)
(* the chunk's start lines advanced by the changes before it; for every    *)
(* Addition or Deletion change the result is a number that is not          *)
(* negative, and the result is "none" only for a change without any of the *)
(* three tags.                                                             *)
(***************************************************************************)
TagsBefore(chunk, i, counted) ==
  Cardinality({j \in 1..(i - 1) : chunk.changes[j].tag \in counted})

NewFileNumber(chunk, i) == chunk.newStart + TagsBefore(chunk, i, {"normal", "add"})

OldFileNumber(chunk, i) == chunk.oldStart + TagsBefore(chunk, i, {"normal", "del"})

C11_ResolvedLineNumber ==
  mapped.called =>
    \A i \in 1..Len(mapped.chunk.changes) :
      LET change == mapped.chunk.changes[i]
          resolved == getLineNumber(change)
      IN  /\ change.tag \in {"normal", "add"} =>
               resolved = Num(NewFileNumber(mapped.chunk, i))
          /\ change.tag = "del" => resolved = Num(OldFileNumber(mapped.chunk, i))
          /\ isAddOrDel(change) => (resolved.t = "num" /\ resolved.n >= 0)
          /\ resolved = Undefined => change.tag \notin {"normal", "add", "del"}

\* a context change after a deletion: its two line numbers differ
C11_Witness ==
  /\ mapped.called
  /\ \E i \in 1..Len(mapped.chunk.changes) :
       /\ mapped.chunk.changes[i].tag = "normal"
       /\ mapped.chunk.changes[i].ln1 # mapped.chunk.changes[i].ln2
       /\ getLineNumber(mapped.chunk.changes[i]) = Num(mapped.chunk.changes[i].ln2)
  /\ \E i \in 1..Len(mapped.chunk.changes) : mapped.chunk.changes[i].tag = "del"

(***************************************************************************)
(* C12.  A failure of the diff parser is fatal: the run ends with failure  *)
(* status, that failure being the error reported; nothing of the diff is   *)
(* kept or filtered, no file content is fetched, no prompt is built, no    *)
(* model is invoked and no review is submitted.                            *)
(***************************************************************************)
C12_ParseFailureIsFatal ==
  /\ "parseDiff" \in thrown =>
       /\ pc = "Done"
       /\ status = "failure"
       /\ error = "parseDiff"
  /\ hostDiff.malformed =>
       /\ filteredDiff = <<>>
       /\ ~FilterApplied
       /\ FileCalls = {}
       /\ comments = <<>>
       /\ submissions = <<>>
       /\ CallsOf("createReview") = {}

\* the parser failed on the diff between two commits
C12_Witness ==
  /\ "parseDiff" \in thrown
  /\ event.action = "synchronize"
  /\ Len(calls) = 2
  /\ status = "failure"

(***************************************************************************)
(* C13.  In every run the metadata fetch is the first call; "opened" leads *)
(* to exactly one full-diff fetch and no incremental one, "synchronize" to *)
(* exactly one incremental fetch between the payload's before and after    *)
(* commits and no full one; the diff is parsed and filtered before the     *)
(* first prompt is built; each prompt is followed at once by the model     *)
(* invocation for the same chunk; and a run that has ended after filtering *)
(* has invoked the model exactly once for each chunk of every file that is *)
(* left after filtering and not deleted.                                   *)
(***************************************************************************)
DiffFetched == pc \notin {"GetPRDetails", "FetchDiff"} /\ "pulls.get" \notin thrown

ModelCallsFor(f, k) == {i \in CallsOf("model") : calls[i].file = f /\ calls[i].chunk = k}

C13_CallsInOrder ==
  /\ calls # <<>> => calls[1].op = "pulls.get"
  /\ Cardinality(CallsOf("pulls.get")) <= 1
  /\ (DiffFetched /\ event.action = "opened") =>
       /\ calls[2].op = "getDiff"
       /\ Cardinality(CallsOf("getDiff")) = 1
       /\ CallsOf("compareCommits") = {}
  /\ (DiffFetched /\ event.action = "synchronize") =>
       /\ calls[2].op = "compareCommits"
       /\ calls[2].base = event.before
       /\ calls[2].head = event.after
       /\ Cardinality(CallsOf("compareCommits")) = 1
       /\ CallsOf("getDiff") = {}
  /\ \A i \in CallsOf("createPrompt") :
       /\ FilterApplied
       /\ i > 2
       /\ calls[i].file \in 1..Len(filteredDiff)
       /\ calls[i].to = filteredDiff[calls[i].file].to
       /\ i < Len(calls)
       /\ calls[i + 1].op = "model"
       /\ calls[i + 1].file = calls[i].file
       /\ calls[i + 1].chunk = calls[i].chunk
  /\ \A i \in CallsOf("model") : calls[i - 1].op = "createPrompt"
  /\ \A f \in 1..Len(filteredDiff) :
       \A k \in 1..Len(filteredDiff[f].chunks) :
         Cardinality(ModelCallsFor(f, k)) <= 1

C13_StatedOrder ==
  /\ C13_CallsInOrder
  /\ (pc = "Done" /\ FilterApplied) =>
       \A f \in 1..Len(filteredDiff) :
         ~isDeleted(filteredDiff[f]) =>
           \A k \in 1..Len(filteredDiff[f].chunks) :
             Cardinality(ModelCallsFor(f, k)) = 1

(***************************************************************************)
(* C14.  With the default, empty exclude input no file is excluded: every  *)
(* file of the parsed diff is left after filtering, in its original order, *)
(* a file without a destination path included.                             *)
(***************************************************************************)
C14_DefaultExcludesNothing ==
  (FilterApplied /\ excludeInput = <<>>) => filteredDiff = hostDiff.files

(***************************************************************************)
(* C15.  Every comment that enters the accumulator does so in the review   *)
(* of one chunk, with the destination path of the file under review, which *)
(* is a file of the parsed diff that is neither excluded nor deleted, and  *)
(* with a line of the EligibleLineSet of that very chunk; no other step    *)
(* touches the accumulator, and the list passed to the review submission   *)
(* is the accumulator.                                                     *)
(***************************************************************************)
ReviewStep == pc = "Chunks" /\ Len(calls') = Len(calls) + 2

Appended == SubSeq(comments', Len(comments) + 1, Len(comments'))

AnchoredTo(file, chunk, comment) ==
  /\ HasPath(file)
  /\ file \in Range(hostDiff.files)
  /\ comment.path = file.to.s
  /\ comment.path # DevNull
  /\ ~ExcludedPath(comment.path)
  /\ comment.line \in EligibleLineSet(chunk)

C15_AnchoredComments ==
  [][ /\ ReviewStep =>
           \A c \in Range(Appended) :
             AnchoredTo(filteredDiff[fileIdx],
                        filteredDiff[fileIdx].chunks[chunkIdx], c)
      /\ ~ReviewStep => comments' = comments
      /\ submissions' # submissions => submissions' = Append(submissions, comments)
    ]_vars

\* a submitted list with comments of both chunks of "a.md" and of "b.txt"
C15_Witness ==
  /\ Len(submissions) = 1
  /\ filteredDiff = << File(Str(PathMd), <<ChunkDelThenContext, ChunkAdd>>),
                       File(Str(PathTxt), <<ChunkAdd>>) >>
  /\ \E c \in Submitted : c.path = PathMd /\ c.line = 1
  /\ \E c \in Submitted : c.path = PathMd /\ c.line = 10
  /\ \E c \in Submitted : c.path = PathTxt /\ c.line = 10

(***************************************************************************)
(* C16.  The line numbers the prompt of a chunk enumerates as the only     *)
(* lines open to comments are, as a set, the lines createComment validates *)
(* the response to that prompt against: an entry on an enumerated line is  *)
(* never dropped and an entry on any other line is never accepted.         *)
(***************************************************************************)
LastModelCall == CHOOSE i \in CallsOf("model") : \A j \in CallsOf("model") : j <= i

OfferedEntry(entry) ==
  LET n == ToNumber(entry.lineNumber)
  IN  n.t = "num" /\ n.n \in Range(prompt.changedLines)

Validated(file, chunk, a) ==
  IF a.kind = "content" /\ a.json = "object" /\ a.reviews.t = "arr" /\ HasPath(file)
  THEN ExpectedComments(file, chunk, a.reviews.items)
  ELSE <<>>

C17_AccumulatorOnlyAppends ==
  [][ /\ ReviewStep =>
           /\ comments' = comments
                \o Validated(filteredDiff[fileIdx],
                             filteredDiff[fileIdx].chunks[chunkIdx], answer')
           /\ fileIdx' = fileIdx
           /\ chunkIdx' \in {chunkIdx, chunkIdx + 1}
           /\ chunkIdx' = chunkIdx => pc' = "Done"
      /\ ~ReviewStep => comments' = comments
      /\ fileIdx' \in {fileIdx, fileIdx + 1}
      /\ filteredDiff' # filteredDiff => (fileIdx = 0 /\ comments = <<>>)
      /\ submissions' # submissions => submissions' = << comments >>
    ]_vars

\* three comments from two chunks, in chunk order and entry order
C17_Witness ==
  /\ Len(submissions) = 1
  /\ Len(filteredDiff) = 1
  /\ submissions[1] = << [body |-> "B", path |-> PathMd, line |-> 1],
                         [body |-> "A", path |-> PathMd, line |-> 10],
                         [body |-> "B", path |-> PathMd, line |-> 10] >>

(***************************************************************************)
(* C18.  When the diff fetch of an "opened" or "synchronize" run returns   *)
(* no diff text, the run ends with success status and no error, without    *)
(* parsing or filtering, without any file-content fetch, prompt or model   *)
(* invocation, and without a review submission.                            *)
(***************************************************************************)
EmptyDiffFetched ==
  /\ hostDiff.empty
  /\ ~UnsupportedTrigger
  /\ DiffFetched
  /\ thrown \cap {"getDiff", "compareCommits"} = {}

C18_EmptyDiffIsNoOp ==
  EmptyDiffFetched =>
    /\ pc = "Done"
    /\ status = "success"
    /\ error = "none"
    /\ thrown = {}
    /\ Len(calls) = 2
    /\ ~FilterApplied
    /\ filteredDiff = <<>>
    /\ FileCalls = {}
    /\ CallsOf("createReview") = {}
    /\ comments = <<>>
    /\ submissions = <<>>

\* a "synchronize" run whose comparison returned no diff text
C18_Witness ==
  /\ EmptyDiffFetched
  /\ event.action = "synchronize"
  /\ calls[2].op = "compareCommits"
  /\ status = "success"

====
